---- MODULE Spec2Model ----
(***************************************************************************)
(* Model of the vector-storage subsystem of personal-rag:                  *)
(*   src/src/storage/storage.py   DocumentChunk, VectorStorage.chunk_text  *)
(*   src/src/storage/elastic.py   ElasticsearchStorage                     *)
(*   src/src/embeddings/__init__.py   get_embedding                        *)
(* Texts are sequences of one-character strings; a float score s is        *)
(* carried as the integer 10*s so that the weights 0.7 and 0.3 are 7 and 3.*)
(***************************************************************************)
EXTENDS Integers, Sequences, FiniteSets, TLC

VARIABLES
    text,        \* chunk_text: the text argument
    chunk_size,  \* chunk_text: the chunk_size argument
    overlap,     \* chunk_text: the overlap argument
    chunked,     \* chunk_text: [pc, raised, chunks], the call's position and outcome
    es_exists,   \* backend: "absent", "dynamic" (no vector mapping) or "mapped"
    es_docs,     \* backend: the documents of the index, in arrival order
    ret,         \* the last storage operation: its arguments and what it returned
    init_calls,  \* per client: the position and outcome of its initialize() call
    deleted      \* per filename: how its last delete_document went, until it is stored again

vars == <<text, chunk_size, overlap, chunked, es_exists, es_docs, ret, init_calls, deleted>>

(* ------------------------------ bounds -------------------------------- *)
MaxTextLen == 8
MaxChunkSize == 3
MaxOverlap == 3

Chars == {"a", "b", " "}

Min(a, b) == IF a < b THEN a ELSE b

RECURSIVE SeqsUpTo(_, _)
SeqsUpTo(S, n) ==
    IF n = 0 THEN {<<>>}
    ELSE LET shorter == SeqsUpTo(S, n - 1)
         IN  shorter \cup {Append(s, c) : s \in {t \in shorter : Len(t) = n - 1}, c \in S}

(* ------------------------- python primitives -------------------------- *)
\* str.split(): maximal runs of non-whitespace characters, in order
RECURSIVE SplitFrom(_, _, _)
SplitFrom(t, i, cur) ==
    IF i > Len(t) THEN (IF cur = <<>> THEN <<>> ELSE <<cur>>)
    ELSE IF t[i] = " "
         THEN (IF cur = <<>> THEN SplitFrom(t, i + 1, <<>>)
                             ELSE <<cur>> \o SplitFrom(t, i + 1, <<>>))
         ELSE SplitFrom(t, i + 1, Append(cur, t[i]))

Split(t) == SplitFrom(t, 1, <<>>)

\* (mutant) the words are joined without the separator
RECURSIVE JoinNoSeparator(_)
JoinNoSeparator(ws) ==
    IF ws = <<>> THEN <<>> ELSE ws[1] \o JoinNoSeparator(Tail(ws))

\* " ".join(ws)
RECURSIVE Join(_)
Join(ws) ==
    IF ws = <<>> THEN <<>>
    ELSE IF Len(ws) = 1 THEN ws[1]
    ELSE ws[1] \o <<" ">> \o Join(Tail(ws))

\* s[a:b] for 0 <= a, 0 <= b: the slice is clamped to the sequence
PySlice(s, a, b) == SubSeq(s, a + 1, Min(b, Len(s)))

\* list(range(start, stop, step)) for step # 0
RECURSIVE PyRange(_, _, _)
PyRange(start, stop, step) ==
    IF step > 0
    THEN (IF start >= stop THEN <<>> ELSE <<start>> \o PyRange(start + step, stop, step))
    ELSE (IF start <= stop THEN <<>> ELSE <<start>> \o PyRange(start + step, stop, step))

(* --------------------------- DocumentChunk ---------------------------- *)
Code(c) == CASE c = "a" -> 1 [] c = "b" -> 2 [] c = " " -> 3 [] OTHER -> 0

\* the text read as a base-5 number: stands for the md5 digest of the text
RECURSIVE Digest(_)
Digest(s) == IF s = <<>> THEN 0 ELSE Code(s[Len(s)]) + 5 * Digest(SubSeq(s, 1, Len(s) - 1))

\* content_hash[:8]: a fixed-width prefix of the digest (8 hex digits in the
\* source; 30 bits here, the widest power of two the checker's integers hold)
HashPrefix(s) == Digest(s) % (2 ^ 30)

\* DocumentChunk(content, filename, chunk_index) after __post_init__; metadata
\* becomes the empty dict
DocumentChunk(content, filename, chunk_index) ==
    [content |-> content, filename |-> filename, chunk_index |-> chunk_index,
     metadata |-> <<>>,
     chunk_id |-> <<filename, chunk_index, HashPrefix(content)>>]

(* ----------------------------- chunk_text ----------------------------- *)
\* (mutant) the window advances by a whole chunk, ignoring the overlap
StrideIgnoringOverlap(cs, ov) == cs

\* the step of the range in chunk_text
Stride(cs, ov) == cs - ov

\* (mutant) the loop stops only once the window passes the last word
LastWindowStrict(i, cs, n) == i + cs > n

\* the break test at the end of the loop body
LastWindow(i, cs, n) == i + cs >= n

\* the for loop over the range values `is`, with its break
RECURSIVE ChunkLoop(_, _, _, _)
ChunkLoop(words, cs, is, chunks) ==
    IF is = <<>> THEN chunks
    ELSE LET i == Head(is)
             chunk == DocumentChunk(Join(PySlice(words, i, i + cs)), <<>>, Len(chunks))
         IN  IF LastWindow(i, cs, Len(words))
             THEN Append(chunks, chunk)
             ELSE ChunkLoop(words, cs, Tail(is), Append(chunks, chunk))

\* chunk_text(text, chunk_size, overlap): range() raises ValueError on a zero step
chunk_text(t, cs, ov) ==
    LET words == Split(t)
    IN  IF Stride(cs, ov) = 0
        THEN [raised |-> TRUE, chunks |-> <<>>]
        ELSE [raised |-> FALSE,
              chunks |-> ChunkLoop(words, cs, PyRange(0, Len(words), Stride(cs, ov)), <<>>)]

(* ------------------------ embedding provider -------------------------- *)
EmbeddingDim == 3

\* the vector the embedding model gives a text: a signed unit vector chosen by
\* the text, so that cosine similarities are -1, 0 or 1
Embed(t) ==
    LET h == Digest(t)
        pos == (h % EmbeddingDim) + 1
        sign == IF (h \div EmbeddingDim) % 2 = 0 THEN 1 ELSE -1
    IN  [i \in 1..EmbeddingDim |-> IF i = pos THEN sign ELSE 0]

\* get_embedding(text): the model's vector, or [] when the provider call failed
get_embedding(t, failed) == IF failed THEN <<>> ELSE Embed(t)

(* ------------------------------ backend ------------------------------- *)
\* the dense_vector fields of the mapping that initialize creates
VectorFields == {"content_embedding", "filename_embedding", "combined_embedding"}

\* es_client.index(document=doc) is accepted unless the index has the
\* dense_vector mapping (dims = embedding_dim) and a vector has another length
EsAccepts(exists, doc) ==
    exists = "mapped" => \A f \in VectorFields : Len(doc[f]) = EmbeddingDim

\* an index written to before it exists is created without the mapping
EsAfterWrite(exists) == IF exists = "absent" THEN "dynamic" ELSE exists

(* --------------------------- store_document --------------------------- *)
\* f"Filename: {filename}\nContent: {chunk.content}"
CombinedText(filename, content) ==
    <<"Filename: ">> \o filename \o <<"\nContent: ">> \o content

\* (mutant) the combined embedding is made from filename and content whatever
\* include_filename_in_search says
EmbedChunkAlwaysCombined(chunk, filename, include, fault) ==
    LET ce == get_embedding(chunk.content, fault = "content")
        fe == get_embedding(filename, fault = "filename")
        cmb == get_embedding(CombinedText(filename, chunk.content), fault = "combined")
    IN  [chunk EXCEPT !.filename = filename] @@
        [content_embedding |-> ce, filename_embedding |-> fe, combined_embedding |-> cmb]

\* the body of the for loop of store_document for the chunk at position j;
\* faults[j] names the call that fails while chunk j is handled, if any
EmbedChunk(chunk, filename, include, fault) ==
    LET ce == get_embedding(chunk.content, fault = "content")
        fe == get_embedding(filename, fault = "filename")
        cmb == IF include
               THEN get_embedding(CombinedText(filename, chunk.content), fault = "combined")
               ELSE ce
    IN  [chunk EXCEPT !.filename = filename] @@
        [content_embedding |-> ce, filename_embedding |-> fe, combined_embedding |-> cmb]

\* time.time() * 1000 at the index call; the model does not tell clock
\* readings apart
NowMs == "now"

\* the document store_chunks builds from a chunk
ChunkDoc(chunk) ==
    [content |-> chunk.content,
     filename |-> chunk.filename,
     content_embedding |-> chunk.content_embedding,
     filename_embedding |-> chunk.filename_embedding,
     combined_embedding |-> chunk.combined_embedding,
     chunk_index |-> chunk.chunk_index,
     chunk_id |-> chunk.chunk_id,
     metadata |-> chunk.metadata,
     timestamp |-> NowMs]

\* es_client.index raises for chunk j: the backend fails, or rejects the document
IndexRaises(chunk, fault, exists) ==
    fault = "index" \/ ~EsAccepts(exists, ChunkDoc(chunk))

\* (mutant) the loop of store_chunks gives up at the first chunk that fails
RECURSIVE StoreLoopAborting(_, _, _, _)
StoreLoopAborting(chunks, j, faults, st) ==
    IF j > Len(chunks) THEN st
    ELSE IF IndexRaises(chunks[j], faults[j], st.exists)
         THEN st
         ELSE StoreLoopAborting(chunks, j + 1, faults,
                  [docs |-> Append(st.docs, ChunkDoc(chunks[j])),
                   exists |-> EsAfterWrite(st.exists),
                   stored_count |-> st.stored_count + 1])

\* the loop of store_chunks from position j on: a chunk whose index call raises
\* is passed over, the others are indexed and counted
RECURSIVE StoreLoop(_, _, _, _)
StoreLoop(chunks, j, faults, st) ==
    IF j > Len(chunks) THEN st
    ELSE IF IndexRaises(chunks[j], faults[j], st.exists)
         THEN StoreLoop(chunks, j + 1, faults, st)
         ELSE StoreLoop(chunks, j + 1, faults,
                  [docs |-> Append(st.docs, ChunkDoc(chunks[j])),
                   exists |-> EsAfterWrite(st.exists),
                   stored_count |-> st.stored_count + 1])

\* (mutant) store_chunks first drops what the index holds under the filenames
\* of the chunks, so that a re-ingested file replaces its previous version
store_chunks_replacing(chunks, faults, exists, docs) ==
    LET names == {chunks[j].filename : j \in 1..Len(chunks)}
        RECURSIVE Others(_)
        Others(i) == IF i > Len(docs) THEN <<>>
                     ELSE (IF docs[i].filename \in names THEN <<>> ELSE <<docs[i]>>)
                          \o Others(i + 1)
    IN  StoreLoop(chunks, 1, faults, [docs |-> Others(1), exists |-> exists, stored_count |-> 0])

\* store_chunks(chunks, get_embedding_fn) on the backend state (exists, docs)
store_chunks(chunks, faults, exists, docs) ==
    StoreLoop(chunks, 1, faults, [docs |-> docs, exists |-> exists, stored_count |-> 0])

\* the first half of store_document: chunk the content and embed every chunk;
\* a ValueError of chunk_text propagates
embed_chunks(content, filename, cs, ov, include, faults) ==
    LET c == chunk_text(content, cs, ov)
    IN  [raised |-> c.raised,
         faults |-> faults,
         chunks |-> [j \in 1..Len(c.chunks) |->
                        EmbedChunk(c.chunks[j], filename, include, faults[j])]]

\* the second half of store_document: store_chunks and the count of the status
store_document(call, exists, docs) ==
    IF call.raised
    THEN [raised |-> TRUE, docs |-> docs, exists |-> exists, stored_count |-> 0]
    ELSE [raised |-> FALSE] @@ store_chunks(call.chunks, call.faults, exists, docs)

(* ----------------------------- initialize ---------------------------- *)
\* initialize(): creates the index with the vector mapping when it is absent;
\* any client error is caught and reported as False
initialize(backend_up, exists) ==
    IF ~backend_up THEN [result |-> FALSE, exists |-> exists]
    ELSE [result |-> TRUE, exists |-> IF exists = "absent" THEN "mapped" ELSE exists]

\* es_client.indices.exists(index): the first client call of initialize
initialize_exists(backend_up, exists) ==
    [raised |-> ~backend_up, found |-> exists # "absent"]

\* es_client.indices.create(index, body=mapping): the backend refuses to create
\* an index that exists (resource_already_exists_exception)
initialize_create(backend_up, exists) ==
    IF ~backend_up \/ exists # "absent"
    THEN [raised |-> TRUE, exists |-> exists]
    ELSE [raised |-> FALSE, exists |-> "mapped"]

(* --------------------------- backend search --------------------------- *)
\* positions 1..Len(sc) ordered by score descending, earlier position first on
\* a tie (the order of the backend's hits, and of Python's stable sorted())
RECURSIVE Ranked(_, _)
Ranked(ids, sc) ==
    IF ids = {} THEN <<>>
    ELSE LET best == CHOOSE i \in ids :
                        \A j \in ids : sc[i] > sc[j] \/ (sc[i] = sc[j] /\ i <= j)
         IN  <<best>> \o Ranked(ids \ {best}, sc)

\* s[:n] for n >= 0
Take(s, n) == SubSeq(s, 1, Min(n, Len(s)))

\* the terms the backend indexes for a field of type text: the words of the value
Analyzed(t) == LET w == Split(t) IN {w[i] : i \in 1..Len(w)}

\* {"term": {field: value}}: the value is looked up among the indexed terms of
\* the field; filename is of type text, so its terms are its words
TermMatches(doc, field, value) ==
    IF field = "filename" THEN value \in Analyzed(doc.filename) ELSE doc[field] = value

\* {"term": {field: value}} for every entry of filters: a conjunction
PassesFilters(doc, filters) == \A fv \in filters : TermMatches(doc, fv[1], fv[2])

Dot(u, v) == IF Len(u) = 0 THEN 0
             ELSE LET RECURSIVE Sum(_)
                      Sum(i) == IF i = 0 THEN 0 ELSE u[i] * v[i] + Sum(i - 1)
                  IN  Sum(Len(u))

\* cosineSimilarity(params.query_vector, field) + 1.0, in tenths; the vectors
\* of the model are unit vectors, so the cosine is the dot product
CosinePlusOne(qv, dv) == 10 * Dot(qv, dv) + 10

\* the hit the backend returns for the document at position i
Hit(docs, i, score) == [_id |-> i, _score |-> score, _source |-> docs[i]]

\* the score of the script for every document from position i on (0 where the
\* script cannot compare the vectors: such a search raises)
RECURSIVE VectorScores(_, _, _, _)
VectorScores(docs, qv, field, i) ==
    IF i > Len(docs) THEN <<>>
    ELSE <<IF Len(docs[i][field]) = Len(qv) THEN CosinePlusOne(qv, docs[i][field]) ELSE 0>>
         \o VectorScores(docs, qv, field, i + 1)

\* the hits for the ranked positions top, from its position n on
RECURSIVE Hits(_, _, _, _)
Hits(docs, sc, top, n) ==
    IF n > Len(top) THEN <<>>
    ELSE <<Hit(docs, top[n], sc[top[n]])>> \o Hits(docs, sc, top, n + 1)

\* es_client.search with the script_score query: raises when the backend is
\* down or the script meets a vector it cannot compare with the query vector
EsVectorSearch(docs, backend_up, qv, field, size, filters) ==
    LET ids == {i \in 1..Len(docs) : PassesFilters(docs[i], filters)}
        sc == VectorScores(docs, qv, field, 1)
    IN  IF ~backend_up \/ size < 0 \/ \E i \in ids : Len(docs[i][field]) # Len(qv)
        THEN [raised |-> TRUE, hits |-> <<>>]
        ELSE [raised |-> FALSE, hits |-> Hits(docs, sc, Take(Ranked(ids, sc), size), 1)]

\* the words of a text, as a set
WordSet(t) == LET w == Split(t) IN {w[i] : i \in 1..Len(w)}

\* the relevance the backend gives a filename for {"match": {"filename": query}}:
\* ten per query word that is a word of the filename
MatchScore(query, filename) == 10 * Cardinality(WordSet(query) \cap WordSet(filename))

RECURSIVE MatchScores(_, _, _)
MatchScores(docs, query, i) ==
    IF i > Len(docs) THEN <<>>
    ELSE <<MatchScore(query, docs[i].filename)>> \o MatchScores(docs, query, i + 1)

\* es_client.search with the match query on filename, sorted by _score descending
EsMatchSearch(docs, backend_up, query, size, filters) ==
    LET sc == MatchScores(docs, query, 1)
        ids == {i \in 1..Len(docs) : sc[i] > 0 /\ PassesFilters(docs[i], filters)}
    IN  IF ~backend_up \/ size < 0
        THEN [raised |-> TRUE, hits |-> <<>>]
        ELSE [raised |-> FALSE, hits |-> Hits(docs, sc, Take(Ranked(ids, sc), size), 1)]

(* ------------------------------- search ------------------------------- *)
\* SearchResult(...) built from a hit
SearchResult(hit) ==
    [content |-> hit._source.content,
     filename |-> hit._source.filename,
     score |-> hit._score,
     chunk_index |-> hit._source.chunk_index,
     chunk_id |-> hit._source.chunk_id]

\* the list comprehension over response["hits"]["hits"], from position n on
RECURSIVE ResultsFrom(_, _)
ResultsFrom(hits, n) ==
    IF n > Len(hits) THEN <<>>
    ELSE <<SearchResult(hits[n])>> \o ResultsFrom(hits, n + 1)

ResultsOf(response) == ResultsFrom(response.hits, 1)

\* a value passed as get_embedding_fn, and what calling it does: the provider
\* returns a vector or its failure value, anything else raises TypeError
Provider(failed) == [callable |-> TRUE, failed |-> failed]
NotCallable == [callable |-> FALSE]
Returned(results) == [raised |-> FALSE, results |-> results]
Raised == [raised |-> TRUE, results |-> <<>>]

\* (mutant) _vector_search without its try/except: a backend error propagates
_vector_search_propagating(query_embedding, field, k, filters, backend_up, docs) ==
    IF query_embedding = <<>> THEN Returned(<<>>)
    ELSE LET response == EsVectorSearch(docs, backend_up, query_embedding, field, k, filters)
         IN  IF response.raised THEN Raised ELSE Returned(ResultsOf(response))

\* _vector_search(query_embedding, field, k, filters)
_vector_search(query_embedding, field, k, filters, backend_up, docs) ==
    IF query_embedding = <<>> THEN Returned(<<>>)
    ELSE LET response == EsVectorSearch(docs, backend_up, query_embedding, field, k, filters)
         IN  IF response.raised THEN Returned(<<>>) ELSE Returned(ResultsOf(response))

\* the three one-field searches: embed the query, then _vector_search
EmbedThenSearch(query, get_embedding_fn, field, k, filters, backend_up, docs) ==
    IF ~get_embedding_fn.callable THEN Raised
    ELSE _vector_search(get_embedding(query, get_embedding_fn.failed),
                        field, k, filters, backend_up, docs)

_search_by_content(query, get_embedding_fn, k, filters, backend_up, docs) ==
    EmbedThenSearch(query, get_embedding_fn, "content_embedding", k, filters, backend_up, docs)

_search_by_filename(query, get_embedding_fn, k, filters, backend_up, docs) ==
    EmbedThenSearch(query, get_embedding_fn, "filename_embedding", k, filters, backend_up, docs)

_search_combined(query, get_embedding_fn, k, filters, backend_up, docs) ==
    EmbedThenSearch(query, get_embedding_fn, "combined_embedding", k, filters, backend_up, docs)

\* (mutant) the lexical search asks the backend for 2k hits, as hybrid_search does
_search_filename_text_double(query, k, filters, backend_up, docs) ==
    LET response == EsMatchSearch(docs, backend_up, query, k * 2, filters)
    IN  IF response.raised THEN Returned(<<>>) ELSE Returned(ResultsOf(response))

\* _search_filename_text(query, k, filters)
_search_filename_text(query, k, filters, backend_up, docs) ==
    LET response == EsMatchSearch(docs, backend_up, query, k, filters)
    IN  IF response.raised THEN Returned(<<>>) ELSE Returned(ResultsOf(response))

\* search_similar passes (query, k, filters) to _search_by_filename, whose
\* parameters are (query, get_embedding_fn, k, filters): the int k arrives as
\* get_embedding_fn
IntAsFunction(k) == NotCallable

ContentWeight == 7
FilenameWeight == 3

\* result.score * weight, the weight in tenths
Weighted(score, weight) == (score * weight) \div 10

\* one of the two loops of hybrid_search over a result list, from position i:
\* all_results is kept as the list of its values in insertion order
RECURSIVE Accumulate(_, _, _, _)
Accumulate(results, i, weight, all_results) ==
    IF i > Len(results) THEN all_results
    ELSE LET result == results[i]
             at == {n \in 1..Len(all_results) : all_results[n].chunk_id = result.chunk_id}
         IN  IF at = {}
             THEN Accumulate(results, i + 1, weight,
                      Append(all_results,
                             [result EXCEPT !.score = Weighted(result.score, weight)]))
             ELSE Accumulate(results, i + 1, weight,
                      [all_results EXCEPT ![CHOOSE n \in at : TRUE].score =
                                              @ + Weighted(result.score, weight)])

\* sorted(all_results.values(), key=score, reverse=True)[:k]
RECURSIVE ScoresOf(_, _)
ScoresOf(results, n) ==
    IF n > Len(results) THEN <<>> ELSE <<results[n].score>> \o ScoresOf(results, n + 1)

RECURSIVE Permuted(_, _, _)
Permuted(results, order, n) ==
    IF n > Len(order) THEN <<>>
    ELSE <<results[order[n]]>> \o Permuted(results, order, n + 1)

SortedTop(all_results, k) ==
    Take(Permuted(all_results, Ranked(1..Len(all_results), ScoresOf(all_results, 1)), 1), k)

\* (mutant) hybrid_search asks each search for k candidates, not 2k
hybrid_search_k_candidates(query, get_embedding_fn, k, content_weight, filename_weight, up_c, up_f, docs) ==
    LET content_results == _search_by_content(query, get_embedding_fn, k, {}, up_c, docs)
        filename_results == _search_filename_text(query, k, {}, up_f, docs)
        merged == Accumulate(filename_results.results, 1, filename_weight,
                      Accumulate(content_results.results, 1, content_weight, <<>>))
    IN  IF content_results.raised THEN Raised
        ELSE Returned(SortedTop(merged, k))

\* hybrid_search(query, get_embedding_fn, k, content_weight, filename_weight);
\* up_c and up_f say whether the backend answers its two search calls
hybrid_search(query, get_embedding_fn, k, content_weight, filename_weight, up_c, up_f, docs) ==
    LET content_results == _search_by_content(query, get_embedding_fn, k * 2, {}, up_c, docs)
        filename_results == _search_filename_text(query, k * 2, {}, up_f, docs)
        merged == Accumulate(filename_results.results, 1, filename_weight,
                      Accumulate(content_results.results, 1, content_weight, <<>>))
    IN  IF content_results.raised THEN Raised
        ELSE Returned(SortedTop(merged, k))

\* (mutant) search_similar with a branch that sends "hybrid" to hybrid_search
search_similar_hybrid_branch(query, get_embedding_fn, k, filters, search_type, backend_up, docs) ==
    IF search_type = "hybrid"
    THEN hybrid_search(query, get_embedding_fn, k, ContentWeight, FilenameWeight,
                       backend_up, backend_up, docs)
    ELSE IF search_type = "filename_only"
    THEN _search_by_filename(query, IntAsFunction(k), filters, {}, backend_up, docs)
    ELSE IF search_type = "content_only"
    THEN _search_by_content(query, get_embedding_fn, k, filters, backend_up, docs)
    ELSE IF search_type = "filename_text"
    THEN _search_filename_text(query, k, filters, backend_up, docs)
    ELSE _search_combined(query, get_embedding_fn, k, filters, backend_up, docs)

\* search_similar(query, get_embedding_fn, k, filters, search_type)
search_similar(query, get_embedding_fn, k, filters, search_type, backend_up, docs) ==
    IF search_type = "filename_only"
    THEN _search_by_filename(query, IntAsFunction(k), filters, {}, backend_up, docs)
    ELSE IF search_type = "content_only"
    THEN _search_by_content(query, get_embedding_fn, k, filters, backend_up, docs)
    ELSE IF search_type = "filename_text"
    THEN _search_filename_text(query, k, filters, backend_up, docs)
    ELSE _search_combined(query, get_embedding_fn, k, filters, backend_up, docs)

(* -------------------- specification of chunk_text --------------------- *)
MaxClients == 2

\* the callers that may be inside initialize() at the same time
Clients == 1..MaxClients

\* a client that has not called initialize() yet
IdleCall ==
    [pc |-> "idle", calls |-> 0, result |-> FALSE, created |-> FALSE, faulted |-> FALSE]

\* no initialize() call in progress, no delete_document on record
InitCallers ==
    /\ init_calls = [c \in Clients |-> IdleCall]
    /\ deleted = {}

InitStorage ==
    /\ es_exists = "absent"
    /\ es_docs = <<>>
    /\ ret = [op |-> "none"]
    /\ InitCallers

InitChunk ==
    /\ text \in SeqsUpTo(Chars, MaxTextLen)
    /\ chunk_size \in 1..MaxChunkSize
    /\ overlap \in 0..MaxOverlap
    /\ chunked = [pc |-> "call", raised |-> FALSE, chunks |-> <<>>]
    /\ InitStorage

ChunkText ==
    /\ chunked.pc = "call"
    /\ chunked' = [pc |-> "done"] @@ chunk_text(text, chunk_size, overlap)
    /\ UNCHANGED <<text, chunk_size, overlap, es_exists, es_docs, ret, init_calls, deleted>>

NextChunk == ChunkText

SpecChunk == InitChunk /\ [][NextChunk]_vars

(* ------------------ specification of the write path ------------------- *)
MaxDocs == 2

Filenames == {<<"a">>, <<"b">>}
Contents == {<<"a">>, <<"a", " ", "b">>}
\* <<chunk_size, overlap>>: two chunks of "a b"; one chunk; zero step; negative step
StoreParams == {<<1, 0>>, <<2, 1>>, <<1, 1>>, <<1, 2>>}

\* what can fail while one chunk is handled: one of its provider calls, or its
\* index call
FaultKinds == {"none", "content", "filename", "combined", "index"}

\* the lengths of the chunk lists that chunk_text gives for these inputs
ChunkCounts(content, p) == {Len(chunk_text(content, p[1], p[2]).chunks)}

\* the store_document calls with these arguments, chunked and embedded
StoreCallsFor(contents, filenames, params, includes, kinds) ==
    UNION {{embed_chunks(content, filename, p[1], p[2], include, faults) :
               faults \in UNION {[1..n -> kinds] : n \in ChunkCounts(content, p)}} :
           content \in contents, filename \in filenames, p \in params,
           include \in includes}

\* every store_document call of the write path
StoreCalls(kinds) == StoreCallsFor(Contents, Filenames, StoreParams, BOOLEAN, kinds)

FaultyStoreCalls == StoreCalls(FaultKinds)
CleanStoreCalls == StoreCalls({"none"})

InitIdle ==
    /\ text = <<>>
    /\ chunk_size = 1
    /\ overlap = 0
    /\ chunked = [pc |-> "idle", raised |-> FALSE, chunks |-> <<>>]

Init == InitIdle /\ InitStorage

UnchangedChunk == UNCHANGED <<text, chunk_size, overlap, chunked>>

\* the filenames of the chunks of a store_document call
StoredNames(chunks) == {chunks[j].filename : j \in 1..Len(chunks)}

Initialize ==
    \E backend_up \in BOOLEAN :
        LET r == initialize(backend_up, es_exists)
        IN  /\ es_exists' = r.exists
            /\ ret' = [op |-> "initialize", result |-> r.result, backend_up |-> backend_up]
            /\ UNCHANGED <<es_docs, init_calls, deleted>>
            /\ UnchangedChunk

\* one store_document call drawn from `calls`
StoreDocumentFrom(calls) ==
    \E call \in calls :
        /\ Len(es_docs) + Len(call.chunks) <= MaxDocs
        /\ LET r == store_document(call, es_exists, es_docs)
           IN  /\ es_docs' = r.docs
               /\ es_exists' = r.exists
               /\ ret' = [op |-> "store_document", raised |-> r.raised,
                          chunks |-> call.chunks, faults |-> call.faults,
                          stored_count |-> r.stored_count,
                          before |-> Len(es_docs), mapped |-> es_exists = "mapped"]
        /\ deleted' = {d \in deleted : d[1] \notin StoredNames(call.chunks)}
        /\ UNCHANGED init_calls
        /\ UnchangedChunk

StoreDocument == StoreDocumentFrom(FaultyStoreCalls)

Next == Initialize \/ StoreDocument

Spec == Init /\ [][Next]_vars

(* ------------------- delete, retrieval, health, stats ----------------- *)
\* the elements of docs at the positions i.. that are in keep, in order
RECURSIVE SelectDocs(_, _, _)
SelectDocs(docs, i, keep) ==
    IF i > Len(docs) THEN <<>>
    ELSE (IF i \in keep THEN <<docs[i]>> ELSE <<>>) \o SelectDocs(docs, i + 1, keep)

\* es_client.delete_by_query with {"term": {"filename": filename}}: raises when
\* the backend is down or the index does not exist
EsDeleteByQuery(docs, backend_up, exists, filename) ==
    LET hit == {i \in 1..Len(docs) : TermMatches(docs[i], "filename", filename)}
    IN  IF ~backend_up \/ exists = "absent"
        THEN [raised |-> TRUE, deleted |-> 0, docs |-> docs]
        ELSE [raised |-> FALSE, deleted |-> Cardinality(hit),
              docs |-> SelectDocs(docs, 1, (1..Len(docs)) \ hit)]

\* delete_document(filename)
delete_document(filename, backend_up, exists, docs) ==
    LET response == EsDeleteByQuery(docs, backend_up, exists, filename)
    IN  IF response.raised
        THEN [result |-> FALSE, raised |-> TRUE, docs |-> docs]
        ELSE [result |-> response.deleted > 0, raised |-> FALSE, docs |-> response.docs]

\* the sort key of chunk_index ascending, for every document from position i on
RECURSIVE IndexKeys(_, _)
IndexKeys(docs, i) ==
    IF i > Len(docs) THEN <<>> ELSE <<0 - docs[i].chunk_index>> \o IndexKeys(docs, i + 1)

\* DocumentChunk(...) built from the hits from position n on; chunk_id is the
\* stored one
RECURSIVE ChunksFrom(_, _, _)
ChunksFrom(docs, order, n) ==
    IF n > Len(order) THEN <<>>
    ELSE LET d == docs[order[n]]
         IN  <<[content |-> d.content, filename |-> d.filename,
                chunk_index |-> d.chunk_index, chunk_id |-> d.chunk_id]>>
             \o ChunksFrom(docs, order, n + 1)

\* get_document_chunks(filename): the term query sorted by chunk_index; any
\* error gives []
get_document_chunks(filename, backend_up, exists, docs) ==
    LET hit == {i \in 1..Len(docs) : TermMatches(docs[i], "filename", filename)}
    IN  IF ~backend_up \/ exists = "absent" THEN <<>>
        ELSE ChunksFrom(docs, Ranked(hit, IndexKeys(docs, 1)), 1)

\* health_check(): es_client.ping(), False when it raises
health_check(up_ping) == up_ping

\* (mutant) get_stats without its try/except
get_stats_unguarded(up_stats, up_count, up_ping, exists, docs) ==
    IF ~up_stats \/ ~up_count \/ exists = "absent"
    THEN [raised |-> TRUE, result |-> [document_count |-> 0]]
    ELSE [raised |-> FALSE,
          result |-> [document_count |-> Len(docs),
                      index_size_bytes |-> Len(docs),
                      health |-> IF health_check(up_ping) THEN "healthy" ELSE "unhealthy"]]

\* get_stats(): indices.stats, count and health_check; the size of the index is
\* carried as its number of documents
get_stats(up_stats, up_count, up_ping, exists, docs) ==
    IF ~up_stats \/ ~up_count \/ exists = "absent"
    THEN [raised |-> FALSE, result |-> [error |-> "error"]]
    ELSE [raised |-> FALSE,
          result |-> [document_count |-> Len(docs),
                      index_size_bytes |-> Len(docs),
                      health |-> IF health_check(up_ping) THEN "healthy" ELSE "unhealthy"]]

(* ------------- specification of the embeddings of a store ------------ *)
\* what can fail while one chunk is handled, for the embedding strategies: the
\* provider call of the combined text, or the index call
EmbedFaultKinds == {"none", "combined", "index"}

\* <<chunk_size, overlap>>: one chunk per word; two words per chunk
EmbedParams == {<<1, 0>>, <<2, 1>>}

\* a store_document call, chunked and embedded, with its filename and
\* include_filename_in_search arguments
ArgStoreCalls ==
    UNION {{[filename |-> filename, include |-> include,
             call |-> embed_chunks(content, filename, p[1], p[2], include, faults)] :
               faults \in UNION {[1..n -> EmbedFaultKinds] : n \in ChunkCounts(content, p)}} :
           content \in Contents, filename \in Filenames, p \in EmbedParams,
           include \in BOOLEAN}

\* one store_document call, its arguments kept with its outcome
StoreDocumentArgs ==
    \E a \in ArgStoreCalls :
        /\ Len(es_docs) + Len(a.call.chunks) <= MaxDocs
        /\ LET r == store_document(a.call, es_exists, es_docs)
           IN  /\ es_docs' = r.docs
               /\ es_exists' = r.exists
               /\ ret' = [op |-> "store_document", raised |-> r.raised,
                          filename |-> a.filename, include |-> a.include,
                          chunks |-> a.call.chunks, faults |-> a.call.faults,
                          stored_count |-> r.stored_count,
                          before |-> Len(es_docs), mapped |-> es_exists = "mapped"]
        /\ deleted' = {d \in deleted : d[1] \notin StoredNames(a.call.chunks)}
        /\ UNCHANGED init_calls
        /\ UnchangedChunk

NextEmbed == Initialize \/ StoreDocumentArgs

SpecEmbed == Init /\ [][NextEmbed]_vars

(* ------------- specification of delete, retrieval and stats ----------- *)
\* a one-word filename and a two-word filename that holds the same word
AdminFilenames == {<<"a">>, <<"a", " ", "b">>}

\* store_document calls that do not fail: one chunk per word, or one chunk for
\* the whole content
AdminStoreCalls ==
    StoreCallsFor(Contents, AdminFilenames, {<<1, 0>>, <<2, 0>>}, {TRUE}, {"none"})

\* get_document_chunks, health_check and get_stats change nothing but ret, and
\* no operation reads ret: each is explored as the last call of its run
AdminReads == {"get_document_chunks", "health_check", "get_stats"}
NoAdminReadYet == ret.op \notin AdminReads

InitializeAdmin == NoAdminReadYet /\ Initialize

StoreDocumentAdmin == NoAdminReadYet /\ StoreDocumentFrom(AdminStoreCalls)

DeleteDocument ==
    \E filename \in AdminFilenames, backend_up \in BOOLEAN :
        LET r == delete_document(filename, backend_up, es_exists, es_docs)
        IN  /\ NoAdminReadYet
            /\ es_docs' = r.docs
            /\ ret' = [op |-> "delete_document", filename |-> filename,
                       backend_up |-> backend_up, raised |-> r.raised,
                       result |-> r.result, before |-> es_docs]
            /\ deleted' = {d \in deleted : d[1] # filename}
                              \cup {<<filename, IF r.raised THEN "error" ELSE "ok">>}
            /\ UNCHANGED <<es_exists, init_calls>>
            /\ UnchangedChunk

GetDocumentChunks ==
    \E filename \in AdminFilenames, backend_up \in BOOLEAN :
        /\ NoAdminReadYet
        /\ ret' = [op |-> "get_document_chunks", filename |-> filename,
                   backend_up |-> backend_up,
                   chunks |-> get_document_chunks(filename, backend_up, es_exists, es_docs)]
        /\ UNCHANGED <<es_exists, es_docs, init_calls, deleted>>
        /\ UnchangedChunk

HealthCheck ==
    \E up_ping \in BOOLEAN :
        /\ NoAdminReadYet
        /\ ret' = [op |-> "health_check", backend_up |-> up_ping,
                   result |-> health_check(up_ping)]
        /\ UNCHANGED <<es_exists, es_docs, init_calls, deleted>>
        /\ UnchangedChunk

GetStats ==
    \E up_stats \in BOOLEAN, up_count \in BOOLEAN, up_ping \in BOOLEAN :
        LET r == get_stats(up_stats, up_count, up_ping, es_exists, es_docs)
        IN  /\ NoAdminReadYet
            /\ ret' = [op |-> "get_stats", up_stats |-> up_stats, up_count |-> up_count,
                       up_ping |-> up_ping, raised |-> r.raised, result |-> r.result]
            /\ UNCHANGED <<es_exists, es_docs, init_calls, deleted>>
            /\ UnchangedChunk

NextAdmin ==
    \/ InitializeAdmin
    \/ StoreDocumentAdmin
    \/ DeleteDocument
    \/ GetDocumentChunks
    \/ HealthCheck
    \/ GetStats

SpecAdmin == Init /\ [][NextAdmin]_vars

(* --------------- specification of concurrent initialize --------------- *)
MaxInitCalls == 2

\* a client enters initialize() and asks the backend whether the index exists:
\* an error ends the call with False, an existing index ends it with True
InitializeExists(c) ==
    \E backend_up \in BOOLEAN :
        LET me == init_calls[c]
            r == initialize_exists(backend_up, es_exists)
            started == [me EXCEPT !.calls = @ + 1]
            done == IF r.raised
                    THEN [started EXCEPT !.pc = "done", !.result = FALSE, !.faulted = TRUE]
                    ELSE [started EXCEPT !.pc = "done", !.result = TRUE]
        IN  /\ me.pc \in {"idle", "done"}
            /\ me.calls < MaxInitCalls
            /\ IF r.raised \/ r.found
               THEN /\ init_calls' = [init_calls EXCEPT ![c] = done]
                    /\ ret' = [op |-> "initialize", result |-> done.result,
                               backend_up |-> backend_up]
               ELSE /\ init_calls' = [init_calls EXCEPT ![c] = [started EXCEPT !.pc = "create"]]
                    /\ UNCHANGED ret
            /\ UNCHANGED <<es_exists, es_docs, deleted>>
            /\ UnchangedChunk

\* a client that saw no index asks the backend to create it; an error of the
\* create call is caught and the call returns False
InitializeCreate(c) ==
    \E backend_up \in BOOLEAN :
        LET me == init_calls[c]
            r == initialize_create(backend_up, es_exists)
        IN  /\ me.pc = "create"
            /\ es_exists' = r.exists
            /\ init_calls' = [init_calls EXCEPT ![c] =
                   [me EXCEPT !.pc = "done", !.result = ~r.raised,
                              !.created = @ \/ ~r.raised,
                              !.faulted = @ \/ ~backend_up]]
            /\ ret' = [op |-> "initialize", result |-> ~r.raised, backend_up |-> backend_up]
            /\ UNCHANGED <<es_docs, deleted>>
            /\ UnchangedChunk

NextInit == \E c \in Clients : InitializeExists(c) \/ InitializeCreate(c)

SpecInit == Init /\ [][NextInit]_vars

(* ------------------ specification of the read path -------------------- *)
MaxK == 2

Queries == {<<"a">>, <<"b">>}
FilterSets == {{}, {<<"filename", <<"a">>>>}}
SearchTypes == {"content_only", "filename_only", "filename_text", "combined", "hybrid"}
WeightPairs == {<<ContentWeight, FilenameWeight>>, <<5, 5>>}

\* the application serves requests once initialize() has returned True
\* (main.py: app.launch follows a successful storage.initialize())
InitSearch ==
    /\ InitIdle
    /\ es_exists = "mapped"
    /\ es_docs = <<>>
    /\ ret = [op |-> "initialize", result |-> TRUE, backend_up |-> TRUE]
    /\ InitCallers

\* A search changes nothing but ret, and no operation reads ret: whatever
\* follows a search reaches the states it reaches from the state before the
\* search. The read path is therefore explored with each search as the last
\* call of its run, which leaves the set of reachable states as it is.
SearchOps == {"search_similar", "hybrid_search"}
NoSearchYet == ret.op \notin SearchOps

\* store_document with a provider and a backend that do not fail
StoreDocumentClean == NoSearchYet /\ StoreDocumentFrom(CleanStoreCalls)


SearchSimilar ==
    \E query \in Queries, failed \in BOOLEAN, k \in 0..MaxK, filters \in FilterSets,
       search_type \in SearchTypes, backend_up \in BOOLEAN :
        LET r == search_similar(query, Provider(failed), k, filters, search_type,
                                backend_up, es_docs)
        IN  /\ NoSearchYet
            /\ ret' = [op |-> "search_similar", query |-> query, failed |-> failed,
                       k |-> k, filters |-> filters, search_type |-> search_type,
                       backend_up |-> backend_up,
                       raised |-> r.raised, results |-> r.results]
            /\ UNCHANGED <<es_exists, es_docs, init_calls, deleted>>
            /\ UnchangedChunk

HybridSearch ==
    \E query \in Queries, failed \in BOOLEAN, k \in 0..MaxK, w \in WeightPairs,
       up_c \in BOOLEAN, up_f \in BOOLEAN :
        LET r == hybrid_search(query, Provider(failed), k, w[1], w[2], up_c, up_f, es_docs)
        IN  /\ NoSearchYet
            /\ ret' = [op |-> "hybrid_search", query |-> query, failed |-> failed,
                       k |-> k, content_weight |-> w[1], filename_weight |-> w[2],
                       up_c |-> up_c, up_f |-> up_f,
                       raised |-> r.raised, results |-> r.results]
            /\ UNCHANGED <<es_exists, es_docs, init_calls, deleted>>
            /\ UnchangedChunk

NextSearch == StoreDocumentClean \/ SearchSimilar

SpecSearch == InitSearch /\ [][NextSearch]_vars

NextHybrid == StoreDocumentClean \/ HybridSearch

SpecHybrid == InitSearch /\ [][NextHybrid]_vars

\* both search entry points over the same index contents
NextRead == StoreDocumentClean \/ SearchSimilar \/ HybridSearch

SpecRead == InitSearch /\ [][NextRead]_vars

(* ------------------------ claims on chunk_text ------------------------ *)
Words == Split(text)
ChunkReturned == chunked.pc = "done"
ChunkWords(j) == Split(chunked.chunks[j].content)
CeilDiv(a, b) == -((-a) \div b)

\* C1 (as claimed): for every text with at least one word, chunk_size >= 1 and
\* overlap >= 0, chunk_text returns normally with at least one chunk, and the
\* last chunk ends with the last word of the text.
C1_ReturnsAndReachesLastWord ==
    (ChunkReturned /\ Words # <<>>) =>
        /\ ~chunked.raised
        /\ Len(chunked.chunks) >= 1
        /\ LET w == ChunkWords(Len(chunked.chunks))
           IN  w # <<>> /\ w[Len(w)] = Words[Len(Words)]

\* the first chunk in full, every later chunk without its first ov words
RECURSIVE Reassemble(_, _)
Reassemble(j, ov) ==
    IF j = 0 THEN <<>>
    ELSE IF j = 1 THEN ChunkWords(1)
    ELSE Reassemble(j - 1, ov) \o SubSeq(ChunkWords(j), ov + 1, Len(ChunkWords(j)))

\* C2: for chunk_size > overlap >= 0 and a text with at least one word, the
\* first chunk followed by every later chunk stripped of its first `overlap`
\* words is exactly the word sequence of the text.
C2_OverlapRemovedReconstructs ==
    (ChunkReturned /\ Words # <<>> /\ chunk_size > overlap) =>
        /\ ~chunked.raised
        /\ Reassemble(Len(chunked.chunks), overlap) = Words

\* C2 witness: an overlapping split whose final window is shorter than chunk_size
C2_Witness ==
    /\ ChunkReturned /\ chunk_size > overlap /\ overlap >= 1
    /\ Len(chunked.chunks) >= 2
    /\ Len(ChunkWords(Len(chunked.chunks))) < chunk_size
    /\ \E i, j \in 1..Len(Words) : Words[i] # Words[j]

\* C3 (as claimed): for chunk_size > overlap >= 0 the number of chunks is
\* ceil((len(words) - overlap) / (chunk_size - overlap)), also when
\* len(words) <= overlap.
C3_CountIsCeilFormula ==
    (ChunkReturned /\ Words # <<>> /\ chunk_size > overlap) =>
        Len(chunked.chunks) = CeilDiv(Len(Words) - overlap, chunk_size - overlap)

\* C3 (amended): the number of chunks is that ceiling when len(words) > overlap,
\* and exactly one when 1 <= len(words) <= overlap.
C3_CountAmended ==
    (ChunkReturned /\ Words # <<>> /\ chunk_size > overlap) =>
        Len(chunked.chunks) =
            IF Len(Words) > overlap
            THEN CeilDiv(Len(Words) - overlap, chunk_size - overlap)
            ELSE 1

\* C3 witness: a text no longer than the overlap, chunked into its one chunk
C3_Witness ==
    /\ ChunkReturned /\ chunk_size > overlap
    /\ Words # <<>> /\ Len(Words) <= overlap
    /\ Len(chunked.chunks) = 1

(* ----------------------- claims on the write path --------------------- *)
Stored == ret.op = "store_document" /\ ~ret.raised
NewDocs == SubSeq(es_docs, ret.before + 1, Len(es_docs))

\* the provider returned its failure value for one of the chunk's embeddings
EmbeddingFailed(chunk) == \E f \in VectorFields : chunk[f] = <<>>

\* the documents of the chunks at the positions j.. that are in keep, in order
RECURSIVE DocsOf(_, _, _)
DocsOf(chunks, j, keep) ==
    IF j > Len(chunks) THEN <<>>
    ELSE (IF j \in keep THEN <<ChunkDoc(chunks[j])>> ELSE <<>>) \o DocsOf(chunks, j + 1, keep)

\* C4 (as claimed): in store_document a chunk whose embedding failed is skipped,
\* neither written nor counted, while the other chunks of the call are stored.
C4_FailedEmbeddingSkipped ==
    Stored =>
        LET keep == {j \in 1..Len(ret.chunks) :
                        ~EmbeddingFailed(ret.chunks[j]) /\ ret.faults[j] # "index"}
        IN  /\ NewDocs = DocsOf(ret.chunks, 1, keep)
            /\ ret.stored_count = Cardinality(keep)

\* the index call for chunk j went through: no backend fault, and no vector of
\* a length the mapping rejects
IndexSucceeded(j) ==
    /\ ret.faults[j] # "index"
    /\ ret.mapped => \A f \in VectorFields : Len(ret.chunks[j][f]) = EmbeddingDim

\* C5: when index calls fail for some chunks, store_chunks (and store_document
\* through it) does not raise, still attempts every later chunk, and the count
\* it returns is the number of chunks the call persisted.
C5_CountIsPersisted ==
    /\ (ret.op = "store_document" /\ ret.chunks # <<>>) => ~ret.raised
    /\ Stored =>
        /\ ret.stored_count = Len(es_docs) - ret.before
        /\ NewDocs = DocsOf(ret.chunks, 1, {j \in 1..Len(ret.chunks) : IndexSucceeded(j)})

\* C5 witness: the index call of the first chunk failed, the second was persisted
C5_Witness ==
    /\ Stored /\ Len(ret.chunks) = 2
    /\ ret.faults[1] = "index" /\ ret.faults[2] = "none"
    /\ ret.stored_count = 1
    /\ Len(es_docs) = ret.before + 1

\* C6 (as claimed): every persisted document has content_embedding,
\* filename_embedding and combined_embedding of length exactly embedding_dim.
C6_PersistedVectorsHaveDim ==
    \A i \in 1..Len(es_docs) : \A f \in VectorFields : Len(es_docs[i][f]) = EmbeddingDim

(* ----------------------- claims on the read path ---------------------- *)
Searched == ret.op = "search_similar"

\* what the backend answers to a vector search of the embedded query against
\* `field`, of size k, under the caller's filters; nothing when it raises
VectorHitsExpected(field) ==
    LET response == EsVectorSearch(es_docs, ret.backend_up, Embed(ret.query), field,
                                   ret.k, ret.filters)
    IN  IF ret.failed \/ response.raised THEN <<>> ELSE ResultsOf(response)

\* what the backend answers to the lexical match on filename
MatchHitsExpected ==
    LET response == EsMatchSearch(es_docs, ret.backend_up, ret.query, ret.k, ret.filters)
    IN  IF response.raised THEN <<>> ELSE ResultsOf(response)

\* C7 (as claimed): for content_only, filename_only and combined, search_similar
\* with a provider that fails for the query returns an empty list and does not
\* raise.
C7_FailedQueryEmbeddingGivesEmpty ==
    (Searched /\ ret.failed
        /\ ret.search_type \in {"content_only", "filename_only", "combined"}) =>
        (~ret.raised /\ ret.results = <<>>)

\* C8 (as claimed): search_similar dispatches as the table says: content_only,
\* filename_only and combined are vector searches against content_embedding,
\* filename_embedding and combined_embedding, filename_text is the lexical
\* match on filename; each returns the backend's hits limited to k under the
\* caller's filters.
C8_DispatchFollowsTable ==
    (Searched /\ ret.search_type # "hybrid") =>
        /\ ~ret.raised
        /\ ret.results =
            CASE ret.search_type = "content_only" -> VectorHitsExpected("content_embedding")
              [] ret.search_type = "filename_only" -> VectorHitsExpected("filename_embedding")
              [] ret.search_type = "filename_text" -> MatchHitsExpected
              [] ret.search_type = "combined" -> VectorHitsExpected("combined_embedding")

\* C9 (as claimed): search_similar with search_type "hybrid" returns what
\* hybrid_search returns with the default weights for the same query, k and
\* index contents.
C9_HybridTypeIsFusion ==
    (Searched /\ ret.search_type = "hybrid" /\ ret.filters = {}) =>
        /\ ~ret.raised
        /\ ret.results = hybrid_search(ret.query, Provider(ret.failed), ret.k,
                                       ContentWeight, FilenameWeight,
                                       ret.backend_up, ret.backend_up, es_docs).results

\* C9 (amended): search_similar has no hybrid branch; search_type "hybrid" is
\* served as the default, the vector search against combined_embedding.
C9_HybridTypeIsCombined ==
    (Searched /\ ret.search_type = "hybrid") =>
        /\ ~ret.raised
        /\ ret.results = VectorHitsExpected("combined_embedding")

\* C9 witness: a "hybrid" search_similar that returned hits, where the fusion
\* of hybrid_search would have returned something else
C9_Witness ==
    /\ Searched /\ ret.search_type = "hybrid" /\ ret.filters = {}
    /\ ret.results # <<>>
    /\ ret.results # hybrid_search(ret.query, Provider(ret.failed), ret.k,
                                   ContentWeight, FilenameWeight,
                                   ret.backend_up, ret.backend_up, es_docs).results

\* the candidates hybrid_search asks the backend for: 2k hits of each kind
ContentCandidates ==
    LET response == EsVectorSearch(es_docs, ret.up_c, Embed(ret.query),
                                   "content_embedding", 2 * ret.k, {})
    IN  IF ret.failed \/ response.raised THEN <<>> ELSE response.hits

FilenameCandidates ==
    LET response == EsMatchSearch(es_docs, ret.up_f, ret.query, 2 * ret.k, {})
    IN  IF response.raised THEN <<>> ELSE response.hits

\* the weighted score of document i in a candidate list, 0 when it is not there
Contribution(hits, i, weight) ==
    IF \E n \in 1..Len(hits) : hits[n]._id = i
    THEN Weighted(hits[CHOOSE n \in 1..Len(hits) : hits[n]._id = i]._score, weight)
    ELSE 0

\* C10 (as claimed): every result of hybrid_search is one candidate document,
\* and its score is content_weight * contentScore + filename_weight *
\* filenameScore over the candidate sets that hold that document, nothing else.
C10_FusedScoreIsWeightedSum ==
    ret.op = "hybrid_search" =>
        \A n \in 1..Len(ret.results) :
            \E i \in 1..Len(es_docs) :
                /\ \E h \in {ContentCandidates[m] : m \in 1..Len(ContentCandidates)}
                        \cup {FilenameCandidates[m] : m \in 1..Len(FilenameCandidates)} :
                       h._id = i /\ [SearchResult(h) EXCEPT !.score = 0]
                                     = [ret.results[n] EXCEPT !.score = 0]
                /\ ret.results[n].score =
                       Contribution(ContentCandidates, i, ret.content_weight)
                       + Contribution(FilenameCandidates, i, ret.filename_weight)

(* ------------------ claims on result size and failures ---------------- *)
\* C11: whatever the search_type, k >= 0 and the index contents, the list that
\* search_similar returns has at most k results, in non-increasing score order.
C11_AtMostKDescending ==
    (Searched /\ ~ret.raised) =>
        /\ Len(ret.results) <= ret.k
        /\ \A n \in 1..(Len(ret.results) - 1) :
               ret.results[n].score >= ret.results[n + 1].score

\* C11 witness: a lexical search with k = 1 over an index where two documents
\* match the query and pass the filters; one result came back
C11_Witness ==
    /\ Searched /\ ~ret.raised /\ ret.search_type = "filename_text"
    /\ ret.k = 1 /\ Len(ret.results) = 1
    /\ Cardinality({i \in 1..Len(es_docs) :
                       /\ MatchScore(ret.query, es_docs[i].filename) > 0
                       /\ PassesFilters(es_docs[i], ret.filters)}) >= 2

C13_InitializeIdempotentConcurrent ==
    (\A c \in Clients : ~init_calls[c].faulted) =>
        /\ \A c \in Clients : init_calls[c].pc = "done" => init_calls[c].result
        /\ (\E c \in Clients : init_calls[c].pc = "done") =>
               Cardinality({c \in Clients : init_calls[c].created}) = 1

(* ------------------- claims on delete and retrieval ------------------- *)
\* C14 (as claimed): once delete_document(f) has returned and f has not been
\* stored again, get_document_chunks(f) returns an empty sequence, whatever was
\* stored before the delete or under other filenames after it.
C14_DeleteThenGetEmpty ==
    (ret.op = "get_document_chunks" /\ <<ret.filename, "ok">> \in deleted) =>
        ret.chunks = <<>>

\* the positions of the documents stored under exactly this filename
NamedExactly(docs, filename) == {i \in 1..Len(docs) : docs[i].filename = filename}

\* C15 (as claimed): delete_document(f) removes every chunk whose filename is
\* exactly f and leaves every other chunk as it is; it returns true iff it
\* removed a chunk; on a backend error it returns false and changes nothing.
C15_DeleteExactFilenameOnly ==
    ret.op = "delete_document" =>
        IF ret.raised
        THEN ~ret.result /\ es_docs = ret.before
        ELSE /\ es_docs = SelectDocs(ret.before, 1,
                              (1..Len(ret.before)) \ NamedExactly(ret.before, ret.filename))
             /\ ret.result = (NamedExactly(ret.before, ret.filename) # {})

(* -------------------- claims on backend availability ------------------ *)
\* C18: when every client call raises, initialize returns False, health_check
\* returns False, and get_stats returns an error descriptor in place of the
\* {document_count, size, health} record; none of them raises.
C18_UnavailableBackendReported ==
    /\ (ret.op = "initialize" /\ ~ret.backend_up) => ret.result = FALSE
    /\ (ret.op = "health_check" /\ ~ret.backend_up) => ret.result = FALSE
    /\ (ret.op = "get_stats" /\ ~ret.up_stats /\ ~ret.up_count /\ ~ret.up_ping) =>
           (~ret.raised /\ DOMAIN ret.result = {"error"})

\* C18 witness: get_stats on an index that holds documents, while every client
\* call raises; the error descriptor came back
C18_Witness ==
    /\ ret.op = "get_stats" /\ ~ret.up_stats /\ ~ret.up_count /\ ~ret.up_ping
    /\ es_exists # "absent" /\ es_docs # <<>>
    /\ ~ret.raised /\ "error" \in DOMAIN ret.result

(* --------------------- further claims on chunk_text ------------------- *)
\* C16: a text of 1 <= len(words) <= chunk_size words, with 0 <= overlap <
\* chunk_size, gives exactly one chunk, and its content is all the words of
\* the text.
C16_SingleChunkWhenFits ==
    (ChunkReturned /\ Len(Words) >= 1 /\ Len(Words) <= chunk_size
        /\ overlap < chunk_size) =>
        /\ ~chunked.raised
        /\ Len(chunked.chunks) = 1
        /\ ChunkWords(1) = Words

\* C16 witness: several words that fit one chunk, with a non-zero overlap
C16_Witness ==
    /\ ChunkReturned /\ Len(Words) >= 2 /\ Len(Words) <= chunk_size
    /\ overlap >= 1 /\ overlap < chunk_size
    /\ Len(chunked.chunks) = 1

\* C17 (as claimed): the chunks of one chunk_text call carry chunk_index
\* 0, 1, ..., n-1 in order, and an empty text yields an empty sequence.
C17_ChunkIndexSequential ==
    /\ (ChunkReturned /\ ~chunked.raised) =>
           \A j \in 1..Len(chunked.chunks) : chunked.chunks[j].chunk_index = j - 1
    /\ (ChunkReturned /\ Words = <<>>) =>
           (~chunked.raised /\ chunked.chunks = <<>>)

(* ---------------------------- claim on chunk_id ------------------------ *)
\* C19 (as claimed): every persisted chunk has the chunk_id derived from the
\* filename given to store_document, its chunk_index and the hash prefix of its
\* content; chunks stored under different filenames never share a chunk_id.
C19_ChunkIdFromFilename ==
    /\ \A i \in 1..Len(es_docs) :
           es_docs[i].chunk_id =
               <<es_docs[i].filename, es_docs[i].chunk_index, HashPrefix(es_docs[i].content)>>
    /\ \A i, j \in 1..Len(es_docs) :
           es_docs[i].filename # es_docs[j].filename =>
               es_docs[i].chunk_id # es_docs[j].chunk_id

(* ----------------------- claim on hybrid ranking ---------------------- *)
\* the sum of the weighted scores of the hits from position n on that carry
\* this chunk_id
RECURSIVE WeightedSum(_, _, _, _)
WeightedSum(hits, n, id, weight) ==
    IF n > Len(hits) THEN 0
    ELSE (IF hits[n]._source.chunk_id = id THEN Weighted(hits[n]._score, weight) ELSE 0)
         + WeightedSum(hits, n + 1, id, weight)

\* the fused score of a chunk_id over the two candidate lists of 2k hits
FusedOf(id) ==
    WeightedSum(ContentCandidates, 1, id, ret.content_weight)
    + WeightedSum(FilenameCandidates, 1, id, ret.filename_weight)

\* the chunk_ids among the candidates
CandidateIds ==
    {ContentCandidates[m]._source.chunk_id : m \in 1..Len(ContentCandidates)}
    \cup {FilenameCandidates[m]._source.chunk_id : m \in 1..Len(FilenameCandidates)}

ReturnedIds == {ret.results[n].chunk_id : n \in 1..Len(ret.results)}

\* C20: hybrid_search takes 2k candidates from each of its two searches and
\* returns the k best of them (all of them when there are fewer) in
\* non-increasing fused-score order, no chunk_id twice, every candidate left
\* out scoring no more than every returned one.
C20_TopKOfCandidates ==
    ret.op = "hybrid_search" =>
        /\ Len(ret.results) = Min(ret.k, Cardinality(CandidateIds))
        /\ \A n \in 1..(Len(ret.results) - 1) :
               ret.results[n].score >= ret.results[n + 1].score
        /\ \A m, n \in 1..Len(ret.results) :
               m # n => ret.results[m].chunk_id # ret.results[n].chunk_id
        /\ \A n \in 1..Len(ret.results) :
               /\ ret.results[n].chunk_id \in CandidateIds
               /\ ret.results[n].score = FusedOf(ret.results[n].chunk_id)
        /\ \A id \in CandidateIds \ ReturnedIds :
               \A n \in 1..Len(ret.results) : FusedOf(id) <= ret.results[n].score

\* C20 witness: k = 1 and two candidate chunk_ids, one returned and one left out
C20_Witness ==
    /\ ret.op = "hybrid_search" /\ ret.k = 1
    /\ Len(ret.results) = 1
    /\ Cardinality(CandidateIds) = 2
    /\ \E id \in CandidateIds \ ReturnedIds : FusedOf(id) < ret.results[1].score

(* ------------------------ claims on persistence ----------------------- *)
\* s is an initial segment of t
IsPrefix(s, t) == Len(s) <= Len(t) /\ SubSeq(t, 1, Len(s)) = s

DocFields ==
    {"content", "filename", "content_embedding", "filename_embedding",
     "combined_embedding", "chunk_index", "chunk_id", "metadata", "timestamp"}

\* C22: for every chunk that store_document handled with a working provider
\* and that was persisted, content_embedding is the embedding of the chunk
\* text, filename_embedding that of the filename, combined_embedding that of
\* the filename-plus-content string when filename inclusion is on and
\* content_embedding itself when it is off; they are persisted together with
\* chunk_index, chunk_id, metadata and a timestamp.
C22_ThreeEmbeddingsPersisted ==
    Stored =>
        \A n \in 1..Len(NewDocs) :
            LET d == NewDocs[n]
                j == d.chunk_index + 1
            IN  ret.faults[j] = "none" =>
                    /\ DOMAIN d = DocFields
                    /\ d.filename = ret.filename
                    /\ d.content = ret.chunks[j].content
                    /\ d.chunk_id = ret.chunks[j].chunk_id
                    /\ d.content_embedding = Embed(d.content)
                    /\ d.filename_embedding = Embed(ret.filename)
                    /\ d.combined_embedding =
                           IF ret.include THEN Embed(CombinedText(ret.filename, d.content))
                           ELSE d.content_embedding

\* C22 witness: a chunk persisted with filename inclusion off, for a filename
\* and content whose filename-plus-content embedding is another vector
C22_Witness ==
    /\ Stored /\ ~ret.include /\ Len(NewDocs) >= 1
    /\ ret.faults[NewDocs[1].chunk_index + 1] = "none"
    /\ NewDocs[1].combined_embedding = Embed(NewDocs[1].content)
    /\ Embed(CombinedText(ret.filename, NewDocs[1].content)) # Embed(NewDocs[1].content)

(* ---------------------- claims on hybrid merging ---------------------- *)
\* every hit among the candidates of hybrid_search
CandidateHits ==
    {ContentCandidates[m] : m \in 1..Len(ContentCandidates)}
    \cup {FilenameCandidates[m] : m \in 1..Len(FilenameCandidates)}

\* C23 (as claimed): hybrid_search puts two candidate hits under one
\* accumulator key only when they are the same chunk: hits whose chunks differ
\* in filename or in content are never merged.
C23_MergesOnlySameChunk ==
    ret.op = "hybrid_search" =>
        \A g, h \in CandidateHits :
            g._source.chunk_id = h._source.chunk_id =>
                /\ g._source.filename = h._source.filename
                /\ g._source.content = h._source.content

\* C24 (as claimed): when the provider fails for the query, hybrid_search does
\* not raise and returns the filename_text hits, at most k in non-increasing
\* order, each with score filename_weight times its lexical score.
C24_ProviderFailureKeepsFilenameHits ==
    (ret.op = "hybrid_search" /\ ret.failed) =>
        /\ ~ret.raised
        /\ Len(ret.results) <= ret.k
        /\ (ret.k >= 1 /\ FilenameCandidates # <<>>) => ret.results # <<>>
        /\ \A n \in 1..(Len(ret.results) - 1) :
               ret.results[n].score >= ret.results[n + 1].score
        /\ \A n \in 1..Len(ret.results) :
               \E m \in 1..Len(FilenameCandidates) :
                   ret.results[n] =
                       [SearchResult(FilenameCandidates[m]) EXCEPT
                           !.score = Weighted(FilenameCandidates[m]._score,
                                              ret.filename_weight)]

====
